---- MODULE Spec2Model ----
(***************************************************************************)
(* examples/export.py: the patch extractor im2col_3d for sparse 3D         *)
(* tensors, the forward hooks that export its result per convolution       *)
(* layer, and the weight export done while the model is loaded.            *)
(*                                                                         *)
(* A tensor is its shape and its contiguous row-major buffer (indices are  *)
(* 0-based, as in the source); view(), transpose() and contiguous() act    *)
(* on that buffer.                                                         *)
(***************************************************************************)
EXTENDS Integers, Sequences, FiniteSets, TLC

VARIABLES
    pc,            \* position of the modelled run
    caller,        \* "direct" | "hook": who invokes im2col_3d
    input_sparse,  \* the sparse tensor handed to im2col_3d
    kernel_size,   \* im2col_3d argument
    stride,        \* im2col_3d argument
    padding,       \* im2col_3d argument, -1 while im2col_3d was not called
    n_calls,       \* number of invocations of im2col_3d so far
    densified,     \* TRUE once input_sparse.dense(...) has run inside im2col_3d
    pad_applied,   \* zero padding applied per side of each spatial axis
    col,           \* the returned patch matrix, NoTensor before / without return
    kernel,        \* m.kernel of the convolution layer under observation
    weight,        \* the exported weight matrix of that layer
    conv_out,      \* the layer's output features, one row per coordinate entry
    input_other,   \* a second sparse tensor, for comparing two invocations
    col_other,     \* the patch matrix returned for input_other
    main_pc,       \* position of __main__: "load", "forward", "done", "crashed"
    modules,       \* model.named_modules(): a module's name is its position
    next_module,   \* position of the loop of line 229
    weight_files,  \* weight/<n>.npy: number of writes and content
    hooks,         \* the forward hooks registered so far, <<n, mode>>
    in_activation, \* in_activation[n.i]: the input last seen by in_hook
    out_activation,\* out_activation[n]: the output last seen by out_hook
    in_files,      \* in/<n>.<i>.npy: number of writes and content
    evals,         \* forward evaluations of each module so far
    hook_log       \* per n.i: inputs seen by in_hook, extractor calls made

callVars == <<pc, caller, input_sparse, kernel_size, stride, padding, n_calls,
              densified, pad_applied, col>>
convVars == <<kernel, weight, conv_out>>
pairVars == <<input_other, col_other>>
mainVars == <<main_pc, modules, next_module, weight_files, hooks, in_activation,
              out_activation, in_files, evals, hook_log>>

vars == <<callVars, convVars, pairVars, mainVars>>

-----------------------------------------------------------------------------
(* Bounds of the model *)

\* dense spatial indices of the generated coordinates range over 0..MaxCoord
MaxCoord == 1
\* a generated sparse tensor has 1..MaxEntries coordinate entries
MaxEntries == 2

\* batch indices, channel counts, tensor strides, kernel sizes and
\* im2col_3d arguments the inputs are drawn from
Batches == {0, 1}
ChannelCounts == {1, 2}
TensorStrides == {1, 2}
KernelSizes == {1, 2, 3}
Strides == {1, 2}
Paddings == {0, 1}

NoTensor == [shape |-> <<>>, data |-> <<>>]
NoSparse == [coordinates |-> <<>>, features |-> <<>>, channels |-> 0,
             tensor_stride |-> <<>>]

-----------------------------------------------------------------------------
(* Arithmetic helpers *)

\* math.ceil(a / s) for an integer a and s > 0
Ceil(a, s) == -((-a) \div s)

Max(S) == CHOOSE m \in S : \A n \in S : n <= m

-----------------------------------------------------------------------------
(* Sparse tensors *)

\* number of coordinate entries: input_sparse.coordinates.shape[0]
NumEntries(sp) == Len(sp.coordinates)

\* channel count: width of the feature matrix
NumChannels(sp) == sp.channels

\* number of elements of a tensor of shape sh
Numel(sh) ==
    LET RECURSIVE P(_)
        P(j) == IF j > Len(sh) THEN 1 ELSE sh[j] * P(j + 1)
    IN P(1)

\* row-major strides of a contiguous tensor: RowMajor(sh)[k] is the distance
\* in the buffer between neighbours along axis k
RowMajor(sh) ==
    LET RECURSIVE P(_)
        P(j) == IF j > Len(sh) THEN 1 ELSE sh[j] * P(j + 1)
    IN [k \in 1..Len(sh) |-> P(k + 1)]

\* the index tuple of buffer offset f
Unravel(f, sh, rm) == [k \in 1..Len(sh) |-> (f \div rm[k]) % sh[k]]

\* the buffer offset of index tuple q
Offset(q, rm) ==
    LET RECURSIVE S(_)
        S(k) == IF k > Len(q) THEN 0 ELSE q[k] * rm[k] + S(k + 1)
    IN S(1)

\* SparseTensor.dense contracts the stride: the grid index of coordinate
\* entry i along spatial axis a is (coords - min_coordinate) // tensor_stride
DenseIndex(sp, min_coordinate, i, a) ==
    (sp.coordinates[i][a + 1] - min_coordinate[a]) \div sp.tensor_stride[a]

\* SparseTensor.dense(min_coordinate=[0,0,0]): a zero-filled grid
\* (batch, channel, depth, height, width) with the features written at
\* coords // tensor_stride; extents are the largest index plus one.
Dense(sp, min_coordinate) ==
    LET ts == sp.tensor_stride
        n  == NumEntries(sp)
        B  == Max({sp.coordinates[i][1] : i \in 1..n}) + 1
        Ext(a) == Max({DenseIndex(sp, min_coordinate, i, a) : i \in 1..n}) + 1
        sh == <<B, NumChannels(sp), Ext(1), Ext(2), Ext(3)>>
        rm == RowMajor(sh)
        Hit(b, z, y, x) ==
            {i \in 1..n : /\ sp.coordinates[i][1] = b
                          /\ DenseIndex(sp, min_coordinate, i, 1) = z
                          /\ DenseIndex(sp, min_coordinate, i, 2) = y
                          /\ DenseIndex(sp, min_coordinate, i, 3) = x}
    IN [ shape |-> sh,
         data  |-> [ f \in 0..Numel(sh)-1 |->
                       LET p == Unravel(f, sh, rm)
                           h == Hit(p[1], p[3], p[4], p[5])
                       IN IF h = {} THEN 0 ELSE sp.features[Max(h)][p[2] + 1] ],
         min_coordinate |-> min_coordinate,
         tensor_stride  |-> ts ]

\* torch.nn.functional.pad(input_data, (p, p, p, p, p, p)): p zeros on both
\* sides of the last three axes
Pad(t, p) ==
    LET sh  == t.shape
        psh == <<sh[1], sh[2], sh[3] + 2*p, sh[4] + 2*p, sh[5] + 2*p>>
        rm  == RowMajor(sh)
        prm == RowMajor(psh)
    IN [ shape |-> psh,
         data  |-> [ f \in 0..Numel(psh)-1 |->
                       LET q == Unravel(f, psh, prm)
                       IN IF /\ q[3] - p \in 0..sh[3]-1
                             /\ q[4] - p \in 0..sh[4]-1
                             /\ q[5] - p \in 0..sh[5]-1
                          THEN t.data[Offset(<<q[1], q[2], q[3] - p, q[4] - p, q[5] - p>>, rm)]
                          ELSE 0 ] ]

\* lines 134-137: densify, then pad only when padding > 0
PaddedInput(d, pad) ==
    IF pad > 0 THEN Pad(d, pad) ELSE [shape |-> d.shape, data |-> d.data]

-----------------------------------------------------------------------------
(* im2col_3d, lines 131-182 *)

\* faulty variant of OutDim: the window count taken one too small
OutDim_OffByOne(in_dim, K, s) == Ceil(in_dim - K, s)

\* lines 143-145: out_dim = math.ceil((in_dim - kernel_size + 1) / stride)
OutDim(in_dim, K, s) == Ceil(in_dim - K + 1, s)

\* shape of col_unconstrained and col, lines 149-157
ColShape(in_shape, K, s) ==
    <<in_shape[1], in_shape[2], K, K, K,
      OutDim(in_shape[3], K, s), OutDim(in_shape[4], K, s), OutDim(in_shape[5], K, s)>>

\* lines 160-166: for every kernel offset (z, y, x) the strided slab
\* input_data[:, :, z:z_max:stride, y:y_max:stride, x:x_max:stride]
col_unconstrained(input_data, K, s) ==
    LET sh  == ColShape(input_data.shape, K, s)
        rm  == RowMajor(sh)
        irm == RowMajor(input_data.shape)
    IN [ shape |-> sh,
         data  |-> [ f \in 0..Numel(sh)-1 |->
                       LET q == Unravel(f, sh, rm)
                       IN input_data.data[Offset(<<q[1], q[2], q[3] + s * q[6],
                                                   q[4] + s * q[7], q[5] + s * q[8]>>, irm)] ] ]

\* faulty variant of LocalIndex: the offset is not divided by the tensor stride
LocalIndex_NoDivision(sp, min_coordinate, tensor_stride, i, a) ==
    sp.coordinates[i][a + 1] - min_coordinate[a]

\* lines 173-176, sparse_crd = min_crd + tensor_stride * dense_crd read
\* backwards: the local index of coordinate entry i along spatial axis a
LocalIndex(sp, min_coordinate, tensor_stride, i, a) ==
    (sp.coordinates[i][a + 1] - min_coordinate[a]) \div tensor_stride[a]

\* lines 170-176: (batch, z, y, x) of coordinate entry i
MaskIndex(sp, min_coordinate, tensor_stride, i) ==
    <<sp.coordinates[i][1],
      LocalIndex(sp, min_coordinate, tensor_stride, i, 1),
      LocalIndex(sp, min_coordinate, tensor_stride, i, 2),
      LocalIndex(sp, min_coordinate, tensor_stride, i, 3)>>

\* line 177 indexes col at MaskIndex: an index outside the tensor raises
\* IndexError (indices are non-negative here, so none wraps around)
MaskInRange(sp, min_coordinate, tensor_stride, sh) ==
    \A i \in 1..NumEntries(sp) :
        LET m == MaskIndex(sp, min_coordinate, tensor_stride, i)
        IN /\ m[1] \in 0..sh[1]-1
           /\ m[2] \in 0..sh[6]-1
           /\ m[3] \in 0..sh[7]-1
           /\ m[4] \in 0..sh[8]-1

\* faulty variant of EnforceSparsity: the unconstrained patches are returned unmasked
EnforceSparsity_NoMask(sp, cu, min_coordinate, tensor_stride) ==
    [shape |-> cu.shape, data |-> cu.data]

\* faulty variant of EnforceSparsity: the mask ignores the batch of an entry
EnforceSparsity_AnyBatch(sp, cu, min_coordinate, tensor_stride) ==
    LET active == {<<MaskIndex(sp, min_coordinate, tensor_stride, i)[2],
                     MaskIndex(sp, min_coordinate, tensor_stride, i)[3],
                     MaskIndex(sp, min_coordinate, tensor_stride, i)[4]>> :
                      i \in 1..NumEntries(sp)}
        sh == cu.shape
        rm == RowMajor(sh)
    IN [ shape |-> sh,
         data  |-> [ f \in 0..Numel(sh)-1 |->
                       LET q == Unravel(f, sh, rm)
                       IN IF <<q[6], q[7], q[8]>> \in active
                          THEN cu.data[f] ELSE 0 ] ]

\* lines 154-157 and 170-177: col starts all-zero and receives, for every
\* coordinate entry, the slab of col_unconstrained at that entry's index
EnforceSparsity(sp, cu, min_coordinate, tensor_stride) ==
    LET active == {MaskIndex(sp, min_coordinate, tensor_stride, i) :
                      i \in 1..NumEntries(sp)}
        sh == cu.shape
        rm == RowMajor(sh)
    IN [ shape |-> sh,
         data  |-> [ f \in 0..Numel(sh)-1 |->
                       LET q == Unravel(f, sh, rm)
                       IN IF <<q[1], q[6], q[7], q[8]>> \in active
                          THEN cu.data[f] ELSE 0 ] ]

\* faulty variant of Flatten: the transpose(1, 2) between the two views is left out
Flatten_NoTranspose(c) ==
    LET sh == c.shape
        R  == sh[1] * sh[6] * sh[7] * sh[8]
    IN [shape |-> <<R, Numel(sh) \div R>>, data |-> c.data]

\* lines 179-180:
\*   col.view(batch_size, -1, N).transpose(1, 2).contiguous()
\*      .view(batch_size * N, -1)          with N = out_depth*out_height*out_width
Flatten(c) ==
    LET sh  == c.shape
        B   == sh[1]
        N   == sh[6] * sh[7] * sh[8]
        tot == Numel(sh)
        M   == tot \div (B * N)               \* the -1 of the first view
        V(b, m, n) == c.data[(b * M + m) * N + n]     \* view(B, M, N)
        T(b, n, m) == V(b, m, n)                      \* transpose(1, 2)
        R   == B * N
        Q   == tot \div R                     \* the -1 of the second view
    IN [ shape |-> <<R, Q>>,
         \* contiguous(): the buffer of the (B, N, M) tensor T, row-major
         data  |-> [ g \in 0..tot-1 |-> T(g \div (N * M), (g \div M) % N, g % M) ] ]

\* the value im2col_3d returns when it returns
Im2colValue(sp, d, K, s, pad) ==
    LET input_data == PaddedInput(d, pad)
        cu == col_unconstrained(input_data, K, s)
    IN Flatten(EnforceSparsity(sp, cu, d.min_coordinate, d.tensor_stride))

\* torch.zeros rejects a negative extent (lines 149-157); an empty extent or
\* a too small one makes line 177 index outside col
Im2colRaises(sp, d, K, s, pad) ==
    LET dsh == d.shape
        sh  == ColShape(<<dsh[1], dsh[2], dsh[3] + 2*pad, dsh[4] + 2*pad, dsh[5] + 2*pad>>, K, s)
    IN \/ \E k \in 6..8 : sh[k] < 0
       \/ ~MaskInRange(sp, d.min_coordinate, d.tensor_stride, sh)

-----
(* Inputs *)

\* a feature vector over C channels is zero or a unit vector
FeatureRows(C) ==
    {r \in [1..C -> {0, 1}] : \A c1, c2 \in 1..C : r[c1] = 1 /\ r[c2] = 1 => c1 = c2}

Cells == Batches \X (0..MaxCoord) \X (0..MaxCoord) \X (0..MaxCoord)

\* position of a cell in the lexicographic order of Cells
CellRank(c) == ((c[1] * (MaxCoord + 1) + c[2]) * (MaxCoord + 1) + c[3]) * (MaxCoord + 1) + c[4]

\* coordinate lists: 1..MaxEntries pairwise distinct cells, listed in
\* lexicographic order
CellSeqs ==
    UNION { {s \in [1..n -> Cells] :
                \A i, j \in 1..n : i < j => CellRank(s[i]) < CellRank(s[j])} :
            n \in 1..MaxEntries }

\* a sparse tensor with the given cells, tensor stride ts (coordinates are
\* multiples of it) and feature matrix f
MkSparse(cells, ts, C, f) ==
    [ coordinates   |-> [i \in 1..Len(cells) |->
                            <<cells[i][1], ts * cells[i][2],
                              ts * cells[i][3], ts * cells[i][4]>>],
      features      |-> f,
      channels      |-> C,
      tensor_stride |-> <<ts, ts, ts>> ]

SparseTensors ==
    UNION { { MkSparse(cells, ts, C, f) :
                f \in [1..Len(cells) -> FeatureRows(C)] } :
            <<cells, ts, C>> \in CellSeqs \X TensorStrides \X ChannelCounts }

-----------------------------------------------------------------------------
(* Specification Spec: one invocation of im2col_3d, made either directly  *)
(* with free arguments or by in_hook                                      *)

\* the variables a specification does not use keep these values
ConvIdle == kernel = NoTensor /\ weight = NoTensor /\ conv_out = <<>>
PairIdle == input_other = NoSparse /\ col_other = NoTensor
MainIdle ==
    /\ main_pc = "idle"
    /\ modules = <<>>
    /\ next_module = 0
    /\ weight_files = <<>>
    /\ hooks = {}
    /\ in_activation = <<>>
    /\ out_activation = <<>>
    /\ in_files = <<>>
    /\ evals = <<>>
    /\ hook_log = <<>>

Init ==
    /\ pc = "start"
    /\ caller \in {"direct", "hook"}
    /\ input_sparse \in SparseTensors
    /\ kernel_size \in KernelSizes
    /\ stride \in Strides
    /\ padding = -1
    /\ n_calls = 0
    /\ densified = FALSE
    /\ pad_applied = -1
    /\ col = NoTensor
    /\ ConvIdle /\ PairIdle /\ MainIdle

\* faulty variant of AssertFails: the assertion is not evaluated
AssertFails_Never(s) == FALSE

\* line 132: assert stride == 1, "stride must be 1"
AssertFails(s) == s # 1

\* im2col_3d(sp, K, s, pad), lines 131-182
im2col_3d(sp, K, s, pad) ==
    /\ padding' = pad
    /\ n_calls' = n_calls + 1
    /\ IF AssertFails(s)
       THEN /\ pc' = "assert_failed"
            /\ UNCHANGED <<densified, pad_applied, col>>
       ELSE LET d == Dense(sp, <<0, 0, 0>>)
            IN /\ densified' = TRUE
               /\ pad_applied' = (PaddedInput(d, pad).shape[3] - d.shape[3]) \div 2
               /\ IF Im2colRaises(sp, d, K, s, pad)
                  THEN pc' = "raised" /\ UNCHANGED col
                  ELSE pc' = "returned" /\ col' = Im2colValue(sp, d, K, s, pad)

\* a direct call im2col_3d(input_sparse, kernel_size, stride, padding)
DirectCall ==
    /\ pc = "start"
    /\ caller = "direct"
    /\ \E pad \in Paddings : im2col_3d(input_sparse, kernel_size, stride, pad)
    /\ UNCHANGED <<caller, input_sparse, kernel_size, stride>>
    /\ UNCHANGED <<convVars, pairVars, mainVars>>

\* faulty variant of HookPadding: the padding of an odd kernel, (kernel_size-1)//2
HookPadding_OddOnly(K) == (K - 1) \div 2

\* line 194: the padding in_hook passes, kernel_size//2
HookPadding(K) == K \div 2

\* faulty variant of StrideIsOne: the hook exports whatever the stride
StrideIsOne_Always(s) == TRUE

\* line 193: if stride == 1
StrideIsOne(s) == s = 1

\* in_hook of a layer with this kernel_size and stride on input_sparse,
\* lines 185-196: the extractor is called only when stride == 1
HookCall ==
    /\ pc = "start"
    /\ caller = "hook"
    /\ IF StrideIsOne(stride)
       THEN im2col_3d(input_sparse, kernel_size, stride, HookPadding(kernel_size))
       ELSE /\ pc' = "skipped"
            /\ UNCHANGED <<padding, n_calls, densified, pad_applied, col>>
    /\ UNCHANGED <<caller, input_sparse, kernel_size, stride>>

\* a forward evaluation of a hooked layer, seen from in_hook
in_hook ==
    /\ HookCall
    /\ UNCHANGED <<convVars, pairVars, mainVars>>

Next == DirectCall \/ in_hook

Spec == Init /\ [][Next]_vars

-----------------------------------------------------------------------------
(* Weight export, lines 229-238, and the convolution the export stands for *)

\* output channel counts of the generated layers
OutChannelCounts == {1, 2}

\* a kernel tensor of shape (kernel volume, in channels, out channels) whose
\* weights are pairwise different
MkKernel(K, Cin, Cout) ==
    LET sh == <<K * K * K, Cin, Cout>>
    IN [shape |-> sh, data |-> [f \in 0..Numel(sh)-1 |-> f + 1]]

\* faulty variant of WeightExport: the kernel is flattened without transpose(0, 1)
WeightExport_NoTranspose(k) ==
    [shape |-> <<Numel(k.shape) \div k.shape[3], k.shape[3]>>, data |-> k.data]

\* lines 234-236:
\*   weight = m.kernel.detach().transpose(0, 1).contiguous()
\*   K = weight.shape[-1];  weight = weight.view(-1, K)
WeightExport(k) ==
    LET sh  == k.shape
        rm  == RowMajor(sh)
        tsh == <<sh[2], sh[1], sh[3]>>       \* transpose(0, 1)
        trm == RowMajor(tsh)
        K   == tsh[3]                        \* weight.shape[-1]
    IN [ shape |-> <<Numel(tsh) \div K, K>>,  \* view(-1, K)
         \* contiguous(): the row-major buffer of the transposed tensor
         data  |-> [ g \in 0..Numel(tsh)-1 |->
                       LET q == Unravel(g, tsh, trm)
                       IN k.data[Offset(<<q[2], q[1], q[3]>>, rm)] ] ]

\* sum of f[x] over the finite set S of integers
RECURSIVE SumOver(_, _)
SumOver(S, f) ==
    IF S = {} THEN 0
    ELSE LET x == Max(S) IN f[x] + SumOver(S \ {x}, f)

\* MinkowskiConvolution with stride 1 on sp: the output at coordinate entry
\* i, channel o, is the sum over kernel offsets (kz, ky, kx), kz slowest,
\* and input channels of kernel[k, c, o] times the feature of the entry at
\* offset (kz, ky, kx) - K//2 tensor strides from entry i (none: 0)
ConvOutput(sp, k, K) ==
    LET n    == NumEntries(sp)
        Cin  == k.shape[2]
        Cout == k.shape[3]
        Idx(i, a) == DenseIndex(sp, <<0, 0, 0>>, i, a)
        Off(i, j, a) == Idx(j, a) - Idx(i, a) + K \div 2
        Near(i) == {j \in 1..n : /\ sp.coordinates[j][1] = sp.coordinates[i][1]
                                  /\ \A a \in 1..3 : Off(i, j, a) \in 0..K-1}
        W(kk, c, o) == k.data[(kk * Cin + c) * Cout + o]
        Term(i, j, o) ==
            LET kk == (Off(i, j, 1) * K + Off(i, j, 2)) * K + Off(i, j, 3)
            IN SumOver(0..Cin-1, [c \in 0..Cin-1 |-> W(kk, c, o) * sp.features[j][c + 1]])
    IN [ i \in 1..n |->
           [ o \in 1..Cout |->
               SumOver(Near(i), [j \in Near(i) |-> Term(i, j, o - 1)]) ] ]

\* sparse tensors all of whose feature vectors are nonzero
ConvInputs ==
    {sp \in SparseTensors :
        \A i \in 1..NumEntries(sp) : \E c \in 1..NumChannels(sp) : sp.features[i][c] # 0}

(* Specification SpecConv: the weights of a stride-1 convolution layer are *)
(* exported, then the layer is evaluated once with its hooks attached      *)

InitConv ==
    /\ pc = "load"
    /\ caller = "hook"
    /\ input_sparse \in ConvInputs
    /\ kernel_size \in KernelSizes
    /\ stride = 1
    /\ padding = -1
    /\ n_calls = 0
    /\ densified = FALSE
    /\ pad_applied = -1
    /\ col = NoTensor
    /\ \E Cout \in OutChannelCounts :
          kernel = MkKernel(kernel_size, NumChannels(input_sparse), Cout)
    /\ weight = NoTensor
    /\ conv_out = <<>>
    /\ PairIdle /\ MainIdle

\* lines 231-238: the layer's weight matrix is written
ExportWeight ==
    /\ pc = "load"
    /\ weight' = WeightExport(kernel)
    /\ pc' = "start"
    /\ UNCHANGED <<caller, input_sparse, kernel_size, stride, padding, n_calls,
                   densified, pad_applied, col, kernel, conv_out>>
    /\ UNCHANGED <<pairVars, mainVars>>

\* the layer is evaluated: in_hook exports the patches of its input,
\* out_hook (lines 198-200) keeps its output
LayerForward ==
    /\ HookCall
    /\ conv_out' = ConvOutput(input_sparse, kernel, kernel_size)
    /\ UNCHANGED <<kernel, weight>>
    /\ UNCHANGED <<pairVars, mainVars>>

NextConv == ExportWeight \/ LayerForward

SpecConv == InitConv /\ [][NextConv]_vars

-----------------------------------------------------------------------------
(* Specification SpecPair: im2col_3d, called as in_hook calls it, on two   *)
(* sparse tensors that share the coordinate entries of one batch           *)

\* the entries of the set es, each [cell |-> .., row |-> ..] with its own
\* cell, as a sparse tensor listing them in lexicographic order
FromEntries(es, ts, C) ==
    LET n   == Cardinality(es)
        seq == CHOOSE q \in [1..n -> es] :
                   \A i, j \in 1..n : i < j => CellRank(q[i].cell) < CellRank(q[j].cell)
    IN MkSparse([i \in 1..n |-> seq[i].cell], ts, C, [i \in 1..n |-> seq[i].row])

EntriesOf(C) == [cell : Cells, row : FeatureRows(C)]

\* unpadded spatial extents of the dense grid of sp
SpatialExtents(sp) == <<Dense(sp, <<0, 0, 0>>).shape[3],
                        Dense(sp, <<0, 0, 0>>).shape[4],
                        Dense(sp, <<0, 0, 0>>).shape[5]>>

\* pairs of tensors with equal spatial extents: a shared entry in one batch,
\* and in another batch an entry each, different in the two, or none in the
\* second tensor
TensorPairs(ts, C) ==
    LET E == EntriesOf(C)
    IN { pr \in UNION { { <<FromEntries({p, qa}, ts, C), FromEntries({p} \cup qb, ts, C)>> :
                            qb \in {{}} \cup {{e} : e \in {e \in E : e.cell[1] = qa.cell[1] /\ e # qa}} } :
                        <<p, qa>> \in {x \in E \X E : x[1].cell[1] # x[2].cell[1]} } :
           SpatialExtents(pr[1]) = SpatialExtents(pr[2]) }

InitPair ==
    /\ pc = "start"
    /\ caller = "hook"
    /\ \E pr \in TensorPairs(1, 1) : input_sparse = pr[1] /\ input_other = pr[2]
    /\ kernel_size \in KernelSizes
    /\ stride = 1
    /\ padding = -1
    /\ n_calls = 0
    /\ densified = FALSE
    /\ pad_applied = -1
    /\ col = NoTensor
    /\ col_other = NoTensor
    /\ ConvIdle /\ MainIdle

\* in_hook runs on input_sparse and, in a second evaluation of the same
\* layer, on input_other
PairCall ==
    /\ pc = "start"
    /\ StrideIsOne(stride) /\ ~AssertFails(stride)
    /\ LET pad == HookPadding(kernel_size)
           d1  == Dense(input_sparse, <<0, 0, 0>>)
           d2  == Dense(input_other, <<0, 0, 0>>)
       IN /\ padding' = pad
          /\ pad_applied' = (PaddedInput(d1, pad).shape[3] - d1.shape[3]) \div 2
          /\ IF \/ Im2colRaises(input_sparse, d1, kernel_size, stride, pad)
                \/ Im2colRaises(input_other, d2, kernel_size, stride, pad)
             THEN pc' = "raised" /\ UNCHANGED <<col, col_other>>
             ELSE /\ pc' = "returned"
                  /\ col' = Im2colValue(input_sparse, d1, kernel_size, stride, pad)
                  /\ col_other' = Im2colValue(input_other, d2, kernel_size, stride, pad)
    /\ n_calls' = n_calls + 2
    /\ densified' = TRUE
    /\ UNCHANGED <<caller, input_sparse, kernel_size, stride, input_other>>
    /\ UNCHANGED <<convVars, mainVars>>

NextPair == PairCall

SpecPair == InitPair /\ [][NextPair]_vars

-----------------------------------------------------------------------------
(* Specification SpecExport: __main__, lines 226-260.  The loop over       *)
(* model.named_modules() writes the weights of every convolution and       *)
(* registers its hooks; then the model is evaluated and the hooks run.     *)

\* a model has 1..MaxModules named modules
MaxModules == 2
\* a forward pass evaluates modules at most MaxEvals times in total
MaxEvals == 2

\* a named module: a MinkowskiConvolution with its kernel size and stride,
\* or any other module
ModuleKinds ==
    [conv : {TRUE}, kernel_size : KernelSizes, stride : Strides]
        \cup [conv : {FALSE}, kernel_size : {0}, stride : {0}]

Models == UNION { [1..n -> ModuleKinds] : n \in 1..MaxModules }

\* the positional arguments a module is evaluated with: one sparse tensor,
\* or two
ForwardInputs ==
    LET one == MkSparse(<<<<0, 0, 0, 0>>>>, 1, 1, <<<<1>>>>)
        two == MkSparse(<<<<0, 0, 0, 0>>, <<0, 0, 1, 1>>>>, 2, 1, <<<<1>>, <<0>>>>)
    IN {<<one>>, <<two, one>>}

\* the largest number of positional arguments
MaxInputs == Max({Len(inp) : inp \in ForwardInputs})

\* m.kernel of a convolution module (one input and one output channel)
ModuleKernel(m) == MkKernel(m.kernel_size, 1, 1)

NoFile == [writes |-> 0, data |-> NoTensor]

InitExport ==
    /\ main_pc = "load"
    /\ modules \in Models
    /\ next_module = 1
    /\ weight_files = [n \in 1..Len(modules) |-> NoFile]
    /\ hooks = {}
    /\ in_activation = [k \in (1..Len(modules)) \X (0..MaxInputs-1) |-> NoSparse]
    /\ out_activation = [n \in 1..Len(modules) |-> 0]
    /\ in_files = [k \in (1..Len(modules)) \X (0..MaxInputs-1) |-> NoFile]
    /\ evals = [n \in 1..Len(modules) |-> 0]
    /\ hook_log = [k \in (1..Len(modules)) \X (0..MaxInputs-1) |-> [seen |-> 0, calls |-> 0]]
    /\ pc = "idle" /\ caller = "hook" /\ input_sparse = NoSparse
    /\ kernel_size = 0 /\ stride = 0 /\ padding = -1 /\ n_calls = 0
    /\ densified = FALSE /\ pad_applied = -1 /\ col = NoTensor
    /\ ConvIdle /\ PairIdle

\* faulty variant of LoadModule: the hooks are registered but no weight is saved
LoadModule_NoSave ==
    /\ main_pc = "load"
    /\ next_module <= Len(modules)
    /\ IF modules[next_module].conv
       THEN hooks' = hooks \cup {<<next_module, "in">>, <<next_module, "out">>}
       ELSE UNCHANGED hooks
    /\ next_module' = next_module + 1
    /\ UNCHANGED <<main_pc, modules, weight_files, in_activation, out_activation,
                   in_files, evals, hook_log>>
    /\ UNCHANGED <<callVars, convVars, pairVars>>

\* one iteration of the loop of lines 229-243
LoadModule ==
    /\ main_pc = "load"
    /\ next_module <= Len(modules)
    /\ IF modules[next_module].conv
       THEN /\ weight_files' =
                 [weight_files EXCEPT ![next_module] =
                     [writes |-> @.writes + 1,
                      data   |-> WeightExport(ModuleKernel(modules[next_module]))]]
            /\ hooks' = hooks \cup {<<next_module, "in">>, <<next_module, "out">>}
       ELSE UNCHANGED <<weight_files, hooks>>
    /\ next_module' = next_module + 1
    /\ UNCHANGED <<main_pc, modules, in_activation, out_activation, in_files,
                   evals, hook_log>>
    /\ UNCHANGED <<callVars, convVars, pairVars>>

\* lines 245-260: the loop is over, the input is built and model(sinput)
\* starts
StartForward ==
    /\ main_pc = "load"
    /\ next_module > Len(modules)
    /\ main_pc' = "forward"
    /\ UNCHANGED <<modules, next_module, weight_files, hooks, in_activation,
                   out_activation, in_files, evals, hook_log>>
    /\ UNCHANGED <<callVars, convVars, pairVars>>

\* what in_hook of module n (lines 185-196) does with its input tuple:
\* the status of the hook and the new logs and files
InHookEffect(n, inp) ==
    LET m    == modules[n]
        idx  == 0..Len(inp)-1
        call == StrideIsOne(m.stride)
        pad  == HookPadding(m.kernel_size)
        d(i) == Dense(inp[i + 1], <<0, 0, 0>>)
        fails(i) ==
            \/ AssertFails(m.stride)
            \/ Im2colRaises(inp[i + 1], d(i), m.kernel_size, m.stride, pad)
        \* the hook stops at the first input whose extraction raises
        done == {i \in idx : \A j \in 0..i : ~(call /\ fails(j))}
        tried == {i \in idx : \A j \in 0..i-1 : ~(call /\ fails(j))}
    IN [ ok   |-> done = idx,
         acts |-> [k \in DOMAIN in_activation |->
                     IF k[1] = n /\ k[2] \in tried THEN inp[k[2] + 1] ELSE in_activation[k]],
         log  |-> [k \in DOMAIN hook_log |->
                     IF k[1] = n /\ k[2] \in tried
                     THEN [seen  |-> hook_log[k].seen + 1,
                           calls |-> hook_log[k].calls + (IF call THEN 1 ELSE 0)]
                     ELSE hook_log[k]],
         calls |-> IF call THEN Cardinality(tried) ELSE 0,
         files |-> [k \in DOMAIN in_files |->
                     IF k[1] = n /\ k[2] \in done /\ call
                     THEN [writes |-> in_files[k].writes + 1,
                           data   |-> Im2colValue(inp[k[2] + 1], d(k[2]), m.kernel_size,
                                                  m.stride, pad)]
                     ELSE in_files[k]] ]

\* the forward pass evaluates module n on the arguments inp; the hooks of a
\* convolution run in the order of their registration, in_hook then out_hook
ForwardModule(n, inp) ==
    /\ main_pc = "forward"
    /\ n \in 1..Len(modules)
    /\ SumOver(DOMAIN evals, evals) < MaxEvals
    /\ evals' = [evals EXCEPT ![n] = @ + 1]
    /\ IF <<n, "in">> \in hooks
       THEN LET e == InHookEffect(n, inp)
            IN /\ in_activation' = e.acts
               /\ hook_log' = e.log
               /\ in_files' = e.files
               /\ n_calls' = n_calls + e.calls
               /\ IF e.ok
                  THEN /\ main_pc' = main_pc
                       /\ out_activation' =
                             IF <<n, "out">> \in hooks
                             THEN [out_activation EXCEPT ![n] = evals'[n]]
                             ELSE out_activation
                  ELSE /\ main_pc' = "crashed"
                       /\ UNCHANGED out_activation
       ELSE UNCHANGED <<main_pc, in_activation, hook_log, in_files, n_calls, out_activation>>
    /\ UNCHANGED <<modules, next_module, weight_files, hooks>>
    /\ UNCHANGED <<pc, caller, input_sparse, kernel_size, stride, padding,
                   densified, pad_applied, col>>
    /\ UNCHANGED <<convVars, pairVars>>

Forward == \E n \in 1..MaxModules, inp \in ForwardInputs : ForwardModule(n, inp)

\* model(sinput) returns
FinishForward ==
    /\ main_pc = "forward"
    /\ main_pc' = "done"
    /\ UNCHANGED <<modules, next_module, weight_files, hooks, in_activation,
                   out_activation, in_files, evals, hook_log>>
    /\ UNCHANGED <<callVars, convVars, pairVars>>

NextExport == LoadModule \/ StartForward \/ Forward \/ FinishForward

SpecExport == InitExport /\ [][NextExport]_vars

-----------------------------------------------------------------------------
(* Vocabulary of the properties of im2col_3d *)

Entries == 1..NumEntries(input_sparse)

\* batch index of coordinate entry i
EntryBatch(i) == input_sparse.coordinates[i][1]

\* (coord - min_coordinate) // tensor_stride of entry i on spatial axis a,
\* with the min_coordinate (0,0,0) of line 134
EntryIndex(i, a) == (input_sparse.coordinates[i][a + 1] - 0) \div input_sparse.tensor_stride[a]

\* batch size and unpadded dense extents of the input
BatchSize == Max({EntryBatch(i) : i \in Entries}) + 1
Extent(a) == Max({EntryIndex(i, a) : i \in Entries}) + 1

\* output extent on axis a from the padded extent, as the shape rule states it
Out(a) == Ceil((Extent(a) + 2 * padding) - kernel_size + 1, stride)

\* row of output location (b, z, y, x) and column of (c, kz, ky, kx)
RowOf(b, z, y, x) == ((b * Out(1) + z) * Out(2) + y) * Out(3) + x
ColumnOf(c, kz, ky, kx) == ((c * kernel_size + kz) * kernel_size + ky) * kernel_size + kx

\* element (r, q) of the returned two-dimensional array
ColAt(r, q) == col.data[r * col.shape[2] + q]

Rows == 0..col.shape[1]-1
Columns == 0..col.shape[2]-1

\* rows derived from the coordinate entries, rows holding a nonzero
ActiveRows == {RowOf(EntryBatch(i), EntryIndex(i, 1), EntryIndex(i, 2), EntryIndex(i, 3)) : i \in Entries}
NonzeroRows == {r \in Rows : \E q \in Columns : ColAt(r, q) # 0}

\* the call returned / was made with the arguments in_hook passes
Returned == pc = "returned"
HookArguments == stride = 1 /\ padding = kernel_size \div 2

\* the densified, zero-padded input at padded position (b, c, z, y, x),
\* read off the sparse tensor: the feature of the entry stored at
\* (z - padding, y - padding, x - padding) of batch b, 0 where none is
PaddedValue(b, c, z, y, x) ==
    LET here == {i \in Entries : /\ EntryBatch(i) = b
                                 /\ EntryIndex(i, 1) = z - padding
                                 /\ EntryIndex(i, 2) = y - padding
                                 /\ EntryIndex(i, 3) = x - padding}
    IN IF here = {} THEN 0 ELSE input_sparse.features[CHOOSE i \in here : TRUE][c + 1]

\* some feature within the kernel window rooted at entry i's output location
\* is nonzero (the window covers offsets -K//2 .. K-1-K//2 around the entry)
WindowHasNonzero(i) ==
    \E j \in Entries :
        /\ EntryBatch(j) = EntryBatch(i)
        /\ \A a \in 1..3 :
              EntryIndex(j, a) - EntryIndex(i, a) + padding \in 0..kernel_size-1
        /\ \E c \in 1..NumChannels(input_sparse) : input_sparse.features[j][c] # 0

-----------------------------------------------------------------------------
(* Properties of im2col_3d, checked under Spec *)

\* C1 as stated: with stride 1 and padding K//2 the rows of the result that
\* hold a nonzero entry are exactly the rows derived from the coordinate
\* entries (none extra, none missing).
C1_SparsityExact ==
    (Returned /\ HookArguments) => NonzeroRows = ActiveRows

\* C1 amended: no row outside the rows derived from the coordinate entries is
\* nonzero, and a derived row is nonzero exactly when some feature inside
\* its kernel window is nonzero; a derived row whose window holds only zero
\* features is all-zero.
C1_SparsityUpToZeroWindows ==
    (Returned /\ HookArguments) =>
        /\ NonzeroRows \subseteq ActiveRows
        /\ \A i \in Entries :
              RowOf(EntryBatch(i), EntryIndex(i, 1), EntryIndex(i, 2), EntryIndex(i, 3)) \in NonzeroRows
                 <=> WindowHasNonzero(i)

\* a returned hook-style call whose input has a registered coordinate with an
\* all-zero window next to a row that is nonzero
C1_Witness ==
    /\ Returned /\ HookArguments
    /\ kernel_size = 3
    /\ NonzeroRows # {}
    /\ \E i \in Entries : ~WindowHasNonzero(i)
    /\ ActiveRows # NonzeroRows

\* C2: with stride 1 and padding K//2, row ((b*D'+z)*H'+y)*W'+x at column
\* ((c*K+kz)*K+ky)*K+kx holds the densified zero-padded input at
\* (b, c, z+kz, y+ky, x+kx) when (b,z,y,x) is the local index of a coordinate
\* entry, and 0 in every column of every other row.
C2_PatchContent ==
    (Returned /\ HookArguments) =>
        \A b \in 0..BatchSize-1, z \in 0..Out(1)-1, y \in 0..Out(2)-1, x \in 0..Out(3)-1 :
            LET active == \E i \in Entries :
                              <<EntryBatch(i), EntryIndex(i, 1), EntryIndex(i, 2), EntryIndex(i, 3)>>
                                 = <<b, z, y, x>>
            IN \A c \in 0..NumChannels(input_sparse)-1,
                  kz \in 0..kernel_size-1, ky \in 0..kernel_size-1, kx \in 0..kernel_size-1 :
                    ColAt(RowOf(b, z, y, x), ColumnOf(c, kz, ky, kx)) =
                        IF active THEN PaddedValue(b, c, z + kz, y + ky, x + kx) ELSE 0

\* a returned hook-style call with two batches, two channels and K = 3 whose
\* result holds a nonzero of channel 1 away from the window centre
C2_Witness ==
    /\ Returned /\ HookArguments
    /\ kernel_size = 3 /\ BatchSize = 2 /\ NumChannels(input_sparse) = 2
    /\ \E r \in Rows, q \in Columns :
          /\ ColAt(r, q) # 0
          /\ q >= 27
          /\ q # ColumnOf(1, 1, 1, 1)
          /\ r >= Out(1) * Out(2) * Out(3)

\* C4: a call with stride different from 1 fails on the assertion before the
\* input is densified, and never returns a patch matrix.
C4_StridePrecondition ==
    (n_calls > 0 /\ stride # 1) =>
        /\ pc = "assert_failed"
        /\ ~densified
        /\ col = NoTensor

\* a call with stride 2 that ended in the assertion
C4_Witness ==
    n_calls = 1 /\ stride = 2 /\ pc = "assert_failed"

\* C6 as stated: every invocation of im2col_3d pads by kernel_size // 2.
C6_PaddingIsHalfKernel ==
    Returned => pad_applied = kernel_size \div 2

\* C6 amended: im2col_3d pads each side of each spatial axis by its padding
\* argument, whatever the kernel size; the invocations made by in_hook pass
\* kernel_size // 2.
C6_PaddingIsArgument ==
    densified =>
        /\ pad_applied = padding
        /\ caller = "hook" => padding = kernel_size \div 2

\* a direct call that returned after padding by something else than K // 2
C6_Witness ==
    /\ Returned /\ caller = "direct"
    /\ kernel_size = 1 /\ pad_applied = 1

\* C8: the returned array is two-dimensional with B*D'*H'*W' rows and
\* C*K*K*K columns, D' = ceil((D - K + 1)/stride) from the padded extent D
\* (likewise H', W').
C8_Shape ==
    Returned =>
        /\ Len(col.shape) = 2
        /\ col.shape[1] = BatchSize * Out(1) * Out(2) * Out(3)
        /\ col.shape[2] = NumChannels(input_sparse) * kernel_size * kernel_size * kernel_size
        /\ DOMAIN col.data = 0..(col.shape[1] * col.shape[2] - 1)

\* a returned call with two batches, two channels, K = 2 and padding 1 on a
\* 2x2x2 grid: 2*3*3*3 rows and 2*8 columns
C8_Witness ==
    /\ Returned /\ kernel_size = 2 /\ padding = 1
    /\ col.shape = <<54, 16>>

\* C10: called with stride 1 and padding K//2 on coordinates that are
\* non-negative multiples of the tensor stride, every local index
\* (coord - min_coordinate) // tensor_stride lies in [0, out_dim), where
\* out_dim is the unpadded extent for odd K and that extent plus 1 for even
\* K; the masking loop never indexes outside col.
C10_MaskInRange ==
    (n_calls > 0 /\ HookArguments) =>
        /\ pc = "returned"
        /\ \A i \in Entries, a \in 1..3 :
              LET idx == LocalIndex(input_sparse, <<0, 0, 0>>, input_sparse.tensor_stride, i, a)
                  out == OutDim(Extent(a) + 2 * padding, kernel_size, stride)
              IN /\ 0 <= idx /\ idx < out
                 /\ out = IF kernel_size % 2 = 1 THEN Extent(a) ELSE Extent(a) + 1

\* a returned hook-style call with even K and tensor stride 2 whose largest
\* local index is the last but one of its axis
C10_Witness ==
    /\ Returned /\ HookArguments
    /\ kernel_size = 2 /\ input_sparse.tensor_stride[1] = 2
    /\ \E i \in Entries : input_sparse.coordinates[i][2] = 2 /\ EntryIndex(i, 1) = 1
    /\ col.shape[1] = BatchSize * 27

-----------------------------------------------------------------------------
(* Property of the weight export, checked under SpecConv *)

InChannels == kernel.shape[2]
OutChannels == kernel.shape[3]
KernelVolume == kernel_size * kernel_size * kernel_size

WeightAt(q, o) == weight.data[q * weight.shape[2] + o]

\* row r of the patch matrix times column o of the weight matrix
RowTimesWeight(r, o) ==
    SumOver(Columns, [q \in Columns |-> ColAt(r, q) * WeightAt(q, o)])

\* C3: the exported matrix W2 has shape (C_in*K^3, C_out) with
\* W2[c*K^3 + k, o] = kernel[k, c, o], and for every active input coordinate
\* its patch row (stride 1, padding K//2) times W2 is the convolution output
\* at that coordinate.
C3_ConvAsMatMul ==
    Returned =>
        /\ weight.shape = <<InChannels * KernelVolume, OutChannels>>
        /\ \A c \in 0..InChannels-1, k \in 0..KernelVolume-1, o \in 0..OutChannels-1 :
              WeightAt(c * KernelVolume + k, o) = kernel.data[(k * InChannels + c) * OutChannels + o]
        /\ \A i \in Entries, o \in 0..OutChannels-1 :
              RowTimesWeight(RowOf(EntryBatch(i), EntryIndex(i, 1), EntryIndex(i, 2), EntryIndex(i, 3)), o)
                 = conv_out[i][o + 1]

\* an evaluated 3x3x3 layer with two input and two output channels whose
\* two coordinate entries lie in each other's window
C3_Witness ==
    /\ Returned /\ kernel_size = 3
    /\ InChannels = 2 /\ OutChannels = 2
    /\ NumEntries(input_sparse) = 2
    /\ EntryBatch(1) = EntryBatch(2)
    /\ input_sparse.features[1] # input_sparse.features[2]
    /\ conv_out[1][1] # conv_out[2][1]
    /\ conv_out[1][2] # conv_out[1][1]

-----------------------------------------------------------------------------
(* Property of two invocations, checked under SpecPair *)

OtherEntries == 1..NumEntries(input_other)

\* the coordinate entries of batch b with their features, of either input
BatchEntries(sp, b) ==
    {<<sp.coordinates[i], sp.features[i]>> : i \in {j \in 1..NumEntries(sp) : sp.coordinates[j][1] = b}}

BatchSizeOf(sp) == Max({sp.coordinates[i][1] : i \in 1..NumEntries(sp)}) + 1

\* rows per batch
RowsPerBatch == Out(1) * Out(2) * Out(3)

\* C7: for two inputs with the same dense extents that agree on batch b, the
\* rows b*D'*H'*W' .. (b+1)*D'*H'*W' - 1 of the two results are identical,
\* however the inputs differ on the other batches.
C7_NoCrossBatchMixing ==
    (Returned /\ col_other # NoTensor) =>
        \A b \in Batches :
            ( /\ b < BatchSizeOf(input_sparse) /\ b < BatchSizeOf(input_other)
              /\ SpatialExtents(input_sparse) = SpatialExtents(input_other)
              /\ BatchEntries(input_sparse, b) = BatchEntries(input_other, b) )
            => \A r \in (b * RowsPerBatch)..((b + 1) * RowsPerBatch - 1), q \in Columns :
                  ColAt(r, q) = col_other.data[r * col_other.shape[2] + q]

\* two returned calls on inputs that agree on batch 0, where the patches of
\* batch 0 are nonzero, and that differ in batch 1, as do their results
C7_Witness ==
    /\ Returned /\ col_other # NoTensor
    /\ kernel_size = 3
    /\ BatchSizeOf(input_sparse) = 2 /\ BatchSizeOf(input_other) = 2
    /\ BatchEntries(input_sparse, 0) = BatchEntries(input_other, 0)
    /\ BatchEntries(input_sparse, 1) # BatchEntries(input_other, 1)
    /\ \E r \in 0..RowsPerBatch-1, q \in Columns : ColAt(r, q) # 0
    /\ col # col_other

-----------------------------------------------------------------------------
(* Properties of the export script, checked under SpecExport *)

ModuleNames == 1..Len(modules)
InputSlots == DOMAIN hook_log

\* C5: on every forward evaluation of a hooked convolution, for each input
\* index i, in_hook calls the extractor and writes in/<n>.<i>.npy if and
\* only if the layer's stride is 1; for a stride different from 1 it does
\* neither, so no hook ever trips the extractor's stride assertion.
C5_StrideGating ==
    (main_pc # "idle") =>
        /\ main_pc # "crashed"
        /\ \A n \in ModuleNames :
              hook_log[<<n, 0>>].seen = IF modules[n].conv THEN evals[n] ELSE 0
        /\ \A k \in InputSlots :
              IF modules[k[1]].conv /\ modules[k[1]].stride = 1
              THEN /\ hook_log[k].calls = hook_log[k].seen
                   /\ in_files[k].writes = hook_log[k].seen
              ELSE /\ hook_log[k].calls = 0
                   /\ in_files[k].writes = 0
                   /\ in_files[k].data = NoTensor

\* a stride-2 convolution was evaluated and left no file, a stride-1
\* convolution was evaluated on two inputs and left a file for each
C5_Witness ==
    /\ main_pc = "done"
    /\ \E n \in ModuleNames :
          /\ modules[n].conv /\ modules[n].stride = 2
          /\ hook_log[<<n, 0>>].seen = 1 /\ in_files[<<n, 0>>].writes = 0
    /\ \E n \in ModuleNames :
          /\ modules[n].conv /\ modules[n].stride = 1
          /\ in_files[<<n, 0>>].writes = 1 /\ in_files[<<n, 1>>].writes = 1
          /\ in_files[<<n, 1>>].data # NoTensor

\* C9: weight/<n>.npy is written exactly once for every convolution, before
\* the first forward evaluation of any module and so before every
\* in/<n>.<i>.npy, and no forward evaluation writes a weight file.
C9_WeightsOnceAtLoad ==
    (main_pc # "idle") =>
        /\ \A n \in ModuleNames :
              weight_files[n].writes =
                 IF modules[n].conv /\ n < next_module THEN 1 ELSE 0
        /\ main_pc # "load" => next_module = Len(modules) + 1
        /\ main_pc = "load" =>
              /\ \A n \in ModuleNames : evals[n] = 0
              /\ \A k \in InputSlots : in_files[k].writes = 0

\* a finished run in which one convolution was evaluated twice: its patches
\* were written twice, its weights once
C9_Witness ==
    /\ main_pc = "done"
    /\ \E n \in ModuleNames :
          /\ modules[n].conv
          /\ evals[n] = 2
          /\ in_files[<<n, 0>>].writes = 2
          /\ weight_files[n].writes = 1
          /\ weight_files[n].data # NoTensor

=============================================================================
